---- MODULE Spec2Model ----
(***************************************************************************)
(* Hammer Throw Pro: the FaceTracker component (face landmarks to a power  *)
(* score, gated by the isActive prop), the App game-phase machine that     *)
(* consumes the score, and the projectile simulator it drives.             *)
(*                                                                         *)
(* JavaScript numbers are modelled as exact rationals extended with NaN    *)
(* and the two infinities, so that a division by zero yields what IEEE     *)
(* arithmetic yields.  Rounding of finite values is not modelled.          *)
(***************************************************************************)
EXTENDS Integers, Sequences, FiniteSets, TLC

VARIABLES
    isActive,      \* FaceTracker prop isActive
    isActiveRef,   \* isActiveRef.current
    effectPending, \* the [isActive] effect of the last render has not run yet
    snapshot,        \* the snapshot state: "null" or an image
    snapshotPending, \* the [isActive, snapshot] effect of the last render has not run yet
    screenshots,     \* what webcamRef.current.getScreenshot() may return
    frameCountRef, \* frameCountRef.current
    pending,       \* frames handed to faceMesh.send whose results are outstanding
    camera,        \* "none" | "started" | "stopped"
    faceMeshOpen,  \* FALSE once faceMesh.close() has run
    teardown,      \* the mount effect's cleanup: "none" | "done" | "threw"
    metrics,       \* React state metrics {mouth, eye, total}
    scan,          \* locals of the last onResults run, and the face count of the run before
    lastCall,      \* the last onScoreUpdate call: its argument and isActive at the call
    lastSend,      \* the last faceMesh.send: isActive at the frame's arrival
    gameState,     \* App: "idle" | "throwing" | "result"
    currentPower,  \* App: the score captured while idle
    throwPower,    \* App: the power locked at release
    lastStart,     \* what the last start() reported: "none" | "ok" | "invalid"
    audioMounted,     \* useSoundEffects: the mount effect has not been cleaned up
    audioContextRef,  \* "null" | "running" | "suspended" | "closed"
    buffersRef,       \* [charge, throw, land]: TRUE when the buffer is loaded
    loading,          \* loadSounds: 0 not started, 1..3 the sound being loaded, 4 finished
    chargeSourceRef,  \* TRUE when chargeSourceRef.current is a node
    chargeGainRef,    \* TRUE when chargeGainRef.current is a node
    chargeTone,       \* [rate, vol]: the targets set on the charge source and gain
    timers,           \* number of stopPowerTone timeouts not yet fired
    nodes,            \* [contexts, loops]: contexts created, looping sources started and not stopped
    lastOp,           \* the last audio operation: [op, created, threw]
    lastTone,         \* the last power-tone call: [op, level, loaded]
    proj           \* simulator: ProjectileState

ftVars  == <<isActive, isActiveRef, effectPending, snapshot, snapshotPending,
             screenshots, frameCountRef, pending,
             camera, faceMeshOpen, teardown, metrics, scan, lastCall, lastSend>>
audioVars == <<audioMounted, audioContextRef, buffersRef, loading, chargeSourceRef,
               chargeGainRef, chargeTone, timers, nodes, lastOp, lastTone>>
appVars == <<gameState, currentPower, throwPower, lastStart, audioVars>>
vars    == <<ftVars, appVars, proj>>

----------------------------------------------------------------------------
(* Bounds of the model *)

MaxFrames  == 6   \* camera frames delivered in one run
MaxPending == 1   \* detector requests outstanding at once

----------------------------------------------------------------------------
(* JavaScript numbers *)

Abs(x) == IF x < 0 THEN -x ELSE x

Sgn(x) == IF x < 0 THEN -1 ELSE IF x > 0 THEN 1 ELSE 0

RECURSIVE Gcd(_, _)
Gcd(a, b) == IF b = 0 THEN a ELSE Gcd(b, a % b)

\* the finite number n/d (d > 0), in lowest terms
Num(n, d) ==
    LET g == Gcd(Abs(n), d)
    IN  [k |-> "fin", n |-> n \div g, d |-> d \div g]

NaN  == [k |-> "nan", n |-> 0, d |-> 1]
Inf  == [k |-> "inf", n |-> 1, d |-> 1]
NInf == [k |-> "inf", n |-> -1, d |-> 1]
SInf(s) == IF s < 0 THEN NInf ELSE Inf

Zero == Num(0, 1)
One  == Num(1, 1)

IsFin(a) == a.k = "fin"
IsNaN(a) == a.k = "nan"

Neg(a) == IF IsFin(a) THEN Num(-a.n, a.d)
          ELSE IF IsNaN(a) THEN NaN ELSE SInf(-a.n)

Add(a, b) ==
    IF IsNaN(a) \/ IsNaN(b) THEN NaN
    ELSE IF IsFin(a) /\ IsFin(b) THEN Num(a.n * b.d + b.n * a.d, a.d * b.d)
    ELSE IF IsFin(a) THEN b
    ELSE IF IsFin(b) THEN a
    ELSE IF a.n = b.n THEN a ELSE NaN

Sub(a, b) == Add(a, Neg(b))

Mul(a, b) ==
    IF IsNaN(a) \/ IsNaN(b) THEN NaN
    ELSE IF IsFin(a) /\ IsFin(b) THEN Num(a.n * b.n, a.d * b.d)
    ELSE IF a.n = 0 \/ b.n = 0 THEN NaN
    ELSE SInf(Sgn(a.n) * Sgn(b.n))

\* a / b; a zero divisor is +0 (distances are never -0)
Div(a, b) ==
    IF IsNaN(a) \/ IsNaN(b) THEN NaN
    ELSE IF IsFin(a) /\ IsFin(b) THEN
        IF b.n = 0 THEN (IF a.n = 0 THEN NaN ELSE SInf(a.n))
        ELSE Num(Sgn(b.n) * a.n * b.d, a.d * Abs(b.n))
    ELSE IF IsFin(a) THEN Zero
    ELSE IF IsFin(b) THEN SInf(a.n * (IF b.n < 0 THEN -1 ELSE 1))
    ELSE NaN

\* a < b, a <= b as JavaScript compares: false when either is NaN
Lt(a, b) ==
    /\ ~IsNaN(a) /\ ~IsNaN(b)
    /\ IF IsFin(a) /\ IsFin(b) THEN a.n * b.d < b.n * a.d
       ELSE IF IsFin(a) THEN b.n > 0
       ELSE IF IsFin(b) THEN a.n < 0
       ELSE a.n < b.n

Leq(a, b) == ~IsNaN(a) /\ ~IsNaN(b) /\ ~Lt(b, a)

MathMax(a, b) == IF IsNaN(a) \/ IsNaN(b) THEN NaN ELSE IF Lt(a, b) THEN b ELSE a

MathMin(a, b) == IF IsNaN(a) \/ IsNaN(b) THEN NaN ELSE IF Lt(b, a) THEN b ELSE a

\* floor of the square root of n, for n up to the square of twice MaxCoord
MaxCoord == 100
ISqrt(n) == CHOOSE r \in 0..(2 * MaxCoord) : r * r <= n /\ (r + 1) * (r + 1) > n

----------------------------------------------------------------------------
(* FaceTracker: the landmark scorer *)

calculateDistance(p1, p2) ==
    Num(ISqrt((p1.x - p2.x) * (p1.x - p2.x) + (p1.y - p2.y) * (p1.y - p2.y)), 1)

\* Math.min(Math.max((mouthOpen - 0.05) / 0.25, 0), 1)
mouthScoreNoMin(mouthOpen) ==
    MathMax(Div(Sub(mouthOpen, Num(5, 100)), Num(25, 100)), Zero)

mouthScoreWrongSpan(mouthOpen) ==
    MathMin(MathMax(Div(Sub(mouthOpen, Num(5, 100)), Num(30, 100)), Zero), One)

mouthScore(mouthOpen) ==
    MathMin(MathMax(Div(Sub(mouthOpen, Num(5, 100)), Num(25, 100)), Zero), One)

\* Math.min(Math.max((eyeOpen - 0.05) / 0.05, 0), 1)
eyeScore(eyeOpen) ==
    MathMin(MathMax(Div(Sub(eyeOpen, Num(5, 100)), Num(5, 100)), Zero), One)

\* (mouthScore * 0.7) + (eyeScore * 0.3)
totalScoreSwapped(m, e) == Add(Mul(m, Num(3, 10)), Mul(e, Num(7, 10)))

totalScore(m, e) == Add(Mul(m, Num(7, 10)), Mul(e, Num(3, 10)))

\* the locals of onResults for one face
LocalsNotNormalized(landmarks) ==
    LET faceHeight   == calculateDistance(landmarks[10], landmarks[152])
        fixedHeight  == Num(40, 1)
        mouthOpen    == Div(calculateDistance(landmarks[13], landmarks[14]), fixedHeight)
        leftEyeOpen  == Div(calculateDistance(landmarks[159], landmarks[145]), fixedHeight)
        rightEyeOpen == Div(calculateDistance(landmarks[386], landmarks[374]), fixedHeight)
        eyeOpen      == Div(Add(leftEyeOpen, rightEyeOpen), Num(2, 1))
    IN  [faces |-> 1, faceHeight |-> faceHeight, mouthOpen |-> mouthOpen,
         eyeOpen |-> eyeOpen, mouthScore |-> mouthScore(mouthOpen),
         eyeScore |-> eyeScore(eyeOpen)]

Locals(landmarks) ==
    LET faceHeight   == calculateDistance(landmarks[10], landmarks[152])
        mouthOpen    == Div(calculateDistance(landmarks[13], landmarks[14]), faceHeight)
        leftEyeOpen  == Div(calculateDistance(landmarks[159], landmarks[145]), faceHeight)
        rightEyeOpen == Div(calculateDistance(landmarks[386], landmarks[374]), faceHeight)
        eyeOpen      == Div(Add(leftEyeOpen, rightEyeOpen), Num(2, 1))
    IN  [faces |-> 1, faceHeight |-> faceHeight, mouthOpen |-> mouthOpen,
         eyeOpen |-> eyeOpen, mouthScore |-> mouthScore(mouthOpen),
         eyeScore |-> eyeScore(eyeOpen)]

\* the else branch computes none of them
NoFaceLocals ==
    [faces |-> 0, faceHeight |-> Zero, mouthOpen |-> Zero, eyeOpen |-> Zero,
     mouthScore |-> Zero, eyeScore |-> Zero]

ZeroMetrics == [mouth |-> Zero, eye |-> Zero, total |-> Zero]

Hundred == Num(100, 1)

FaceMetrics(m, e) ==
    [mouth |-> Mul(m, Hundred), eye |-> Mul(e, Hundred),
     total |-> Mul(totalScore(m, e), Hundred)]

----------------------------------------------------------------------------
(* Detector results: the landmark sets the detector may report *)

Pt(px, py) == [x |-> px, y |-> py]

LandmarkIds == {10, 13, 14, 145, 152, 159, 374, 386}

\* a face whose forehead-chin vector is hv, with the given lip and eyelid gaps
MkFace(hv, mouthGap, eyeGaps) ==
    [i \in LandmarkIds |->
        CASE i = 10  -> Pt(50, 10)
          [] i = 152 -> Pt(50 + hv[1], 10 + hv[2])
          [] i = 13  -> Pt(50, 40)
          [] i = 14  -> Pt(50, 40 + mouthGap)
          [] i = 159 -> Pt(40, 25)
          [] i = 145 -> Pt(40, 25 + eyeGaps[1])
          [] i = 386 -> Pt(60, 25)
          [] i = 374 -> Pt(60, 25 + eyeGaps[2])]

HeightVecs == {<<0, 0>>, <<0, 40>>, <<24, 32>>}
MouthGaps  == {0, 2, 7, 12, 20}
EyeGapSet  == {<<0, 0>>, <<2, 2>>, <<2, 4>>, <<4, 4>>, <<4, 8>>}

Faces == {MkFace(hv, mg, eg) : hv \in HeightVecs, mg \in MouthGaps, eg \in EyeGapSet}

\* the same face nearer to the camera: every coordinate multiplied by k
ScaleFactors == {2, 3}
ScaleFace(f, k) == [i \in LandmarkIds |-> Pt(k * f[i].x, k * f[i].y)]

\* results.multiFaceLandmarks: no face, or one face (maxNumFaces: 1)
ResultsSet == {<<>>} \cup {<<f>> : f \in Faces}

----------------------------------------------------------------------------
(* App: the score-to-power mapping and the game phases *)

MinThrow == 10
MaxThrow == 35

\* the captured score mapped linearly into [MinThrow, MaxThrow]
ThrowPowerFlat(score) == Num(MinThrow, 1)

ThrowPower(score) ==
    Add(Num(MinThrow, 1), Mul(score, Num(MaxThrow - MinThrow, 1)))

ValidPowerNoUpper(p) ==
    IsFin(p) /\ Leq(Num(MinThrow, 1), p)

ValidPower(p) ==
    IsFin(p) /\ Leq(Num(MinThrow, 1), p) /\ Leq(p, Num(MaxThrow, 1))

----------------------------------------------------------------------------
(* Simulator: one projectile, integer fixed point.                         *)
(* Lengths are in decimetres and a tick is half a second.                  *)

Gravity       == 24  \* velocity lost per tick
RestThreshold == 8   \* a rebound slower than this comes to rest
MaxBounces    == 8   \* non-convergence guard
LaunchHeight  == 15
MaxSubSteps   == 4   \* sub-steps one step(dt) may take

\* floor of the finite number a
Floor(a) == a.n \div a.d

InitialProj ==
    [x |-> 0, y |-> LaunchHeight, vx |-> 0, vy |-> 0,
     bounces |-> 0, flying |-> FALSE, atRest |-> FALSE]

\* start(throwPower, 40 degrees): cos 40 = 0.766, sin 40 = 0.643; velocities per tick
start(p) ==
    [InitialProj EXCEPT !.vx = Floor(Mul(p, Num(766 * 5, 1000))),
                        !.vy = Floor(Mul(p, Num(643 * 5, 1000))),
                        !.flying = TRUE]

\* one sub-step of one tick: gravity, then the ground plane; a rebound is
\* halved in both components
SubStepNoRestGuard(s) ==
    LET vy1 == s.vy - Gravity
        y1  == s.y + vy1
        x1  == s.x + s.vx
        vyb == (-vy1) \div 2
        nb  == s.bounces + 1
    IN  IF ~s.flying THEN s
        ELSE IF y1 > 0 THEN [s EXCEPT !.x = x1, !.y = y1, !.vy = vy1]
        ELSE [s EXCEPT !.x = x1, !.y = 0, !.vx = s.vx \div 2, !.vy = vyb,
                       !.bounces = nb,
                       !.atRest = (vyb < RestThreshold \/ nb > MaxBounces)]

SubStep(s) ==
    LET vy1 == s.vy - Gravity
        y1  == s.y + vy1
        x1  == s.x + s.vx
        vyb == (-vy1) \div 2
        nb  == s.bounces + 1
    IN  IF ~s.flying \/ s.atRest THEN s
        ELSE IF y1 > 0 THEN [s EXCEPT !.x = x1, !.y = y1, !.vy = vy1]
        ELSE [s EXCEPT !.x = x1, !.y = 0, !.vx = s.vx \div 2, !.vy = vyb,
                       !.bounces = nb,
                       !.atRest = (vyb < RestThreshold \/ nb > MaxBounces)]

RECURSIVE SubSteps(_, _)
SubSteps(s, n) ==
    IF n <= 0 THEN s ELSE SubSteps(SubStep(s), n - 1)

\* step(dt): one sub-step per tick elapsed, at most MaxSubSteps of them
stepNoAdvance(s, dt) == s

step(s, dt) == SubSteps(s, IF dt > MaxSubSteps THEN MaxSubSteps ELSE dt)

\* elapsed ticks a frame may report; the last one is a long gap
DtSet == {1, 2, MaxSubSteps + 2}

----------------------------------------------------------------------------
(* Initial state: FaceTracker mounted by App in the idle phase *)

\* useSoundEffects after mount: no context, no buffers, no nodes
NoTone == [rate |-> Zero, vol |-> Zero]
NoOp == [op |-> "none", created |-> FALSE, threw |-> FALSE]

NoToneCall == [op |-> "none", level |-> Zero, loaded |-> FALSE]

AudioInit ==
    /\ audioMounted = TRUE
    /\ audioContextRef = "null"
    /\ buffersRef = [charge |-> FALSE, throw |-> FALSE, land |-> FALSE]
    /\ loading = 0
    /\ chargeSourceRef = FALSE
    /\ chargeGainRef = FALSE
    /\ chargeTone = NoTone
    /\ timers = 0
    /\ nodes = [contexts |-> 0, loops |-> 0]
    /\ lastOp = NoOp
    /\ lastTone = NoToneCall

NoCall == [called |-> FALSE, score |-> Zero, isActive |-> TRUE]
NoSend == [sent |-> FALSE, isActive |-> TRUE]

InitBase ==
    /\ isActive = TRUE
    /\ isActiveRef = TRUE
    /\ effectPending = FALSE
    /\ snapshot = "null"
    /\ snapshotPending = FALSE
    /\ frameCountRef = 0
    /\ pending = 0
    /\ camera \in {"started", "none"}
    /\ faceMeshOpen = TRUE
    /\ teardown = "none"
    /\ metrics = ZeroMetrics
    /\ scan = [locals |-> NoFaceLocals, before |-> -1]
    /\ lastCall = NoCall
    /\ lastSend = NoSend
    /\ gameState = "idle"
    /\ currentPower = Zero
    /\ throwPower = Zero
    /\ lastStart = "none"
    /\ proj = InitialProj
    /\ AudioInit

\* with a camera the webcam yields a picture, without one getScreenshot() is null
Init ==
    /\ InitBase
    /\ screenshots = IF camera = "started" THEN {"imgA"} ELSE {"null"}

\* the picture changes over time, and the video may not be ready
InitSnapshot ==
    /\ InitBase
    /\ screenshots \in IF camera = "started"
                        THEN {{"imgA", "imgB"}, {"null", "imgA", "imgB"}}
                        ELSE {{"null"}}

----------------------------------------------------------------------------
(* FaceTracker actions *)

\* the snapshot effect: the value of the snapshot state after it has run
\* with the given isActive, snapshot and getScreenshot() result
snapshotEffectAlwaysCapture(active, snap, imageSrc) ==
    IF ~active
    THEN IF imageSrc # "null" THEN imageSrc ELSE snap
    ELSE IF active /\ snap # "null" THEN "null"
    ELSE snap

snapshotEffect(active, snap, imageSrc) ==
    IF ~active /\ snap = "null"
    THEN IF imageSrc # "null" THEN imageSrc ELSE snap
    ELSE IF active /\ snap # "null" THEN "null"
    ELSE snap

\* a render of FaceTracker with prop value a: effects left over from the
\* previous render are flushed first, the [isActive] effect is scheduled
\* when the prop changed
Render(a) ==
    /\ isActive' = a
    /\ isActiveRef' = IF effectPending THEN isActive ELSE isActiveRef
    /\ effectPending' = (a # isActive)
    /\ \E imageSrc \in screenshots :
          snapshot' = IF snapshotPending
                      THEN snapshotEffect(isActive, snapshot, imageSrc)
                      ELSE snapshot
    /\ snapshotPending' = (a # isActive \/ snapshot' # snapshot)

\* the passive effects of a render: useEffect(() => { isActiveRef.current =
\* isActive }, [isActive]) and the snapshot effect; a setSnapshot renders
\* again, and that render's snapshot effect is pending in turn
RunEffect ==
    /\ effectPending \/ snapshotPending
    /\ isActiveRef' = IF effectPending THEN isActive ELSE isActiveRef
    /\ effectPending' = FALSE
    /\ \E imageSrc \in screenshots :
          snapshot' = IF snapshotPending
                      THEN snapshotEffect(isActive, snapshot, imageSrc)
                      ELSE snapshot
    /\ snapshotPending' = (snapshot' # snapshot)
    /\ UNCHANGED <<isActive, screenshots, frameCountRef, pending, camera, faceMeshOpen,
                   teardown, metrics, scan, lastCall, lastSend, appVars, proj>>

\* whether onFrame hands the frame to the detector
SendsEveryFrame(count) == isActiveRef

Sends(count) == count % 2 = 0 /\ isActiveRef

\* Camera onFrame
OnFrameWithoutCamera ==
    /\ frameCountRef < MaxFrames
    /\ pending < MaxPending
    /\ frameCountRef' = frameCountRef + 1
    /\ IF Sends(frameCountRef + 1)
       THEN /\ pending' = pending + 1
            /\ lastSend' = [sent |-> TRUE, isActive |-> isActive]
       ELSE UNCHANGED <<pending, lastSend>>
    /\ UNCHANGED <<isActive, isActiveRef, effectPending, snapshot, snapshotPending,
                   screenshots, camera, faceMeshOpen, teardown,
                   metrics, scan, lastCall, appVars, proj>>

\* Camera onFrame
OnFrame ==
    /\ camera = "started"
    /\ frameCountRef < MaxFrames
    /\ pending < MaxPending
    /\ frameCountRef' = frameCountRef + 1
    /\ IF Sends(frameCountRef + 1)
       THEN /\ pending' = pending + 1
            /\ lastSend' = [sent |-> TRUE, isActive |-> isActive]
       ELSE UNCHANGED <<pending, lastSend>>
    /\ UNCHANGED <<isActive, isActiveRef, effectPending, snapshot, snapshotPending,
                   screenshots, camera, faceMeshOpen, teardown,
                   metrics, scan, lastCall, appVars, proj>>

\* App's onScoreUpdate: the score is taken only in the idle phase
HandleScore(score) ==
    currentPower' = IF gameState = "idle" THEN score ELSE currentPower

\* what onResults computes from results.multiFaceLandmarks: the locals, the
\* argument of onScoreUpdate and the argument of setMetrics
\* the else branch: setMetrics({0, 0, 0}), onScoreUpdate(0)
NoFaceOutcomeStale ==
    [locals |-> NoFaceLocals, score |-> NaN, metrics |-> ZeroMetrics]

NoFaceOutcome ==
    [locals |-> NoFaceLocals, score |-> Zero, metrics |-> ZeroMetrics]

Outcome(multiFaceLandmarks) ==
    IF Len(multiFaceLandmarks) > 0
    THEN LET l == Locals(multiFaceLandmarks[1])
         IN  [locals |-> l, score |-> totalScore(l.mouthScore, l.eyeScore),
              metrics |-> FaceMetrics(l.mouthScore, l.eyeScore)]
    ELSE NoFaceOutcome

Outcomes == [r \in ResultsSet |-> Outcome(r)]

\* what onResults computes for each face when it is scaled
ScaledOutcomes ==
    [f \in Faces |-> [k \in ScaleFactors |-> Outcome(<<ScaleFace(f, k)>>)]]

\* faceMesh.onResults
OnResults(multiFaceLandmarks) ==
    /\ pending > 0
    /\ pending' = pending - 1
    /\ LET o == Outcomes[multiFaceLandmarks]
       IN  /\ scan' = [locals |-> o.locals,
                        before |-> IF lastCall.called THEN scan.locals.faces ELSE -1]
           /\ lastCall' = [called |-> TRUE, score |-> o.score, isActive |-> isActive]
           /\ HandleScore(o.score)
           /\ metrics' = o.metrics
    /\ UNCHANGED <<isActive, isActiveRef, effectPending, snapshot, snapshotPending,
                   screenshots, frameCountRef, camera,
                   faceMeshOpen, teardown, lastSend, gameState, throwPower,
                   lastStart, audioVars, proj>>

\* the mount effect's cleanup: if (camera) camera.stop(); faceMesh.close();
\* neither call is inside a try: when camera.stop() throws, faceMesh.close()
\* is not reached and the camera keeps running; when faceMesh.close() fails
\* the detector stays open
Cleanup(stopThrows, closeThrows) ==
    /\ teardown = "none"
    /\ IF camera = "started" /\ stopThrows
       THEN /\ teardown' = "threw"
            /\ UNCHANGED <<camera, faceMeshOpen>>
       ELSE /\ camera' = IF camera = "started" THEN "stopped" ELSE camera
            /\ faceMeshOpen' = closeThrows
            /\ teardown' = IF closeThrows THEN "threw" ELSE "done"
    /\ UNCHANGED <<isActive, isActiveRef, effectPending, snapshot, snapshotPending,
                   screenshots, frameCountRef, pending,
                   metrics, scan, lastCall, lastSend, appVars, proj>>

\* a request outstanding at teardown may never be answered
DropResult ==
    /\ teardown # "none"
    /\ pending > 0
    /\ pending' = pending - 1
    /\ UNCHANGED <<isActive, isActiveRef, effectPending, snapshot, snapshotPending,
                   screenshots, frameCountRef, camera,
                   faceMeshOpen, teardown, metrics, scan, lastCall, lastSend,
                   appVars, proj>>

----------------------------------------------------------------------------
(* App actions: the three triggers, each accepted in one phase only *)

ftFrame == <<screenshots, frameCountRef, pending, camera, faceMeshOpen, teardown, metrics, scan,
             lastCall, lastSend>>

\* the release signal
ReleaseAnyPhase ==
    /\ teardown = "none"
    /\ IF ValidPower(ThrowPower(currentPower))
       THEN /\ gameState' = "throwing"
            /\ throwPower' = ThrowPower(currentPower)
            /\ proj' = start(ThrowPower(currentPower))
            /\ lastStart' = "ok"
            /\ Render(FALSE)
            /\ UNCHANGED <<currentPower, ftFrame, audioVars>>
       ELSE /\ lastStart' = "invalid"
            /\ UNCHANGED <<ftVars, gameState, currentPower, throwPower, proj, audioVars>>

\* the release signal: in idle the power is handed to start(), which
\* rejects an invalid one; in the other phases the signal is ignored
Release ==
    /\ teardown = "none"
    /\ IF gameState # "idle" THEN UNCHANGED vars
       ELSE IF ValidPower(ThrowPower(currentPower))
       THEN /\ gameState' = "throwing"
            /\ throwPower' = ThrowPower(currentPower)
            /\ proj' = start(ThrowPower(currentPower))
            /\ lastStart' = "ok"
            /\ Render(FALSE)
            /\ UNCHANGED <<currentPower, ftFrame, audioVars>>
       ELSE /\ lastStart' = "invalid"
            /\ UNCHANGED <<ftVars, gameState, currentPower, throwPower, proj, audioVars>>

\* one pass of the animation loop: advance the simulator, then check for rest
Tick(dt) ==
    /\ teardown = "none"
    /\ proj' = step(proj, dt)
    /\ IF gameState = "throwing" /\ proj'.atRest
       THEN /\ gameState' = "result"
            /\ Render(FALSE)
       ELSE UNCHANGED <<gameState, isActive, isActiveRef, effectPending, snapshot,
                        snapshotPending>>
    /\ UNCHANGED <<currentPower, throwPower, lastStart, ftFrame, audioVars>>

\* the reset signal
Reset ==
    /\ teardown = "none"
    /\ IF gameState = "result"
       THEN /\ gameState' = "idle"
            /\ proj' = InitialProj
            /\ currentPower' = Zero
            /\ throwPower' = Zero
            /\ Render(TRUE)
            /\ UNCHANGED <<lastStart, ftFrame, audioVars>>
       ELSE UNCHANGED vars

\* the whole game with a camera and a detector that tear down without failure
Next ==
    \/ RunEffect
    \/ OnFrame
    \/ \E r \in ResultsSet : OnResults(r)
    \/ Cleanup(FALSE, FALSE)
    \/ DropResult
    \/ Release
    \/ \E dt \in DtSet : Tick(dt)
    \/ Reset

Spec == Init /\ [][Next]_vars

----------------------------------------------------------------------------
(* The capture loop alone: the tracker stays mounted and active *)

NextCapture ==
    \/ OnFrame
    \/ \E r \in ResultsSet : OnResults(r)

SpecCapture == Init /\ [][NextCapture]_vars

----------------------------------------------------------------------------
(* The capture loop and its teardown, where camera.stop() and               *)
(* faceMesh.close() may fail                                                *)

NextTeardown ==
    \/ OnFrame
    \/ \E r \in ResultsSet : OnResults(r)
    \/ \E stopThrows, closeThrows \in BOOLEAN : Cleanup(stopThrows, closeThrows)
    \/ DropResult

SpecTeardown == Init /\ [][NextTeardown]_vars

----------------------------------------------------------------------------
(* The App and the simulator alone: onScoreUpdate is called by an arbitrary *)
(* caller, and the animation loop keeps running.                            *)

\* scores a caller may pass to onScoreUpdate: in range, out of range, not finite
ScoreInputs ==
    {Zero, Num(1, 4), Num(1, 2), One, Num(-1, 5), Num(-1, 1), Num(2, 1), NaN, Inf}

\* onScoreUpdate(score)
ScoreUpdate(score) ==
    /\ teardown = "none"
    /\ HandleScore(score)
    /\ UNCHANGED <<ftVars, gameState, throwPower, lastStart, audioVars, proj>>

NextSim ==
    \/ \E score \in ScoreInputs : ScoreUpdate(score)
    \/ Release
    \/ \E dt \in DtSet : Tick(dt)
    \/ Reset

SpecSim == Init /\ [][NextSim]_vars /\ WF_vars(\E dt \in DtSet : Tick(dt))

----------------------------------------------------------------------------
(* The renders of FaceTracker and their effects, with a webcam whose        *)
(* picture changes and may be missing                                       *)

NextSnapshot ==
    \/ RunEffect
    \/ \E score \in ScoreInputs : ScoreUpdate(score)
    \/ Release
    \/ \E dt \in DtSet : Tick(dt)
    \/ Reset

SpecSnapshot == InitSnapshot /\ [][NextSnapshot]_vars

----------------------------------------------------------------------------
(* useSoundEffects: the audio hook, called by an arbitrary caller *)

MaxTimers == 2

otherVars == <<ftVars, gameState, currentPower, throwPower, lastStart, proj>>

\* initAudio, the click / keydown listener: the context is created once,
\* loadSounds is started, a suspended context is resumed
initAudio ==
    /\ audioMounted
    /\ IF audioContextRef = "null"
       THEN /\ audioContextRef' = "running"
            /\ loading' = 1
            /\ nodes' = [nodes EXCEPT !.contexts = @ + 1]
       ELSE /\ audioContextRef' =
                  IF audioContextRef = "suspended" THEN "running" ELSE audioContextRef
            /\ UNCHANGED <<loading, nodes>>
    /\ UNCHANGED <<audioMounted, buffersRef, chargeSourceRef, chargeGainRef,
                   chargeTone, timers, lastOp, lastTone,
                   otherVars>>

\* the browser suspends a running context
Suspend ==
    /\ audioContextRef = "running"
    /\ audioContextRef' = "suspended"
    /\ UNCHANGED <<audioMounted, buffersRef, loading, chargeSourceRef, chargeGainRef,
                   chargeTone, timers, nodes, lastOp, lastTone,
                   otherVars>>

\* loadSounds: the three buffers one after the other; loadBuffer gives null
\* when the fetch or the decoding fails
SoundNames == <<"charge", "throw", "land">>

loadBuffer(ok) ==
    /\ loading \in 1..3
    /\ buffersRef' = [buffersRef EXCEPT ![SoundNames[loading]] = ok]
    /\ loading' = loading + 1
    /\ UNCHANGED <<audioMounted, audioContextRef, chargeSourceRef, chargeGainRef,
                   chargeTone, timers, nodes, lastOp, lastTone,
                   otherVars>>

\* the mount effect's cleanup: the listeners are removed and the context is
\* closed; pending timeouts are not cleared
AudioCleanup ==
    /\ audioMounted
    /\ audioMounted' = FALSE
    /\ audioContextRef' = IF audioContextRef = "null" THEN "null" ELSE "closed"
    /\ UNCHANGED <<buffersRef, loading, chargeSourceRef, chargeGainRef, chargeTone,
                   timers, nodes, lastOp, lastTone,
                   otherVars>>

\* power levels passed to playPowerTone: below and at the 0.05 threshold,
\* inside the range, the maximum, and a NaN score
PowerLevels == {Zero, Num(1, 25), Num(1, 20), Num(1, 2), One, NaN}

\* if (!chargeSourceRef.current)
NeedsChargeSourceAlways == TRUE

NeedsChargeSource == ~chargeSourceRef

\* 0.8 + (powerLevel * 0.7) and 0.2 + (powerLevel * 0.6)
playbackRate(powerLevel) == Add(Num(8, 10), Mul(powerLevel, Num(7, 10)))
vol(powerLevel) == Add(Num(2, 10), Mul(powerLevel, Num(6, 10)))

playPowerTone(powerLevel) ==
    /\ audioMounted
    /\ IF audioContextRef = "null"
       THEN /\ lastOp' = [op |-> "playPowerTone", created |-> FALSE, threw |-> FALSE]
            /\ UNCHANGED <<chargeSourceRef, chargeGainRef, chargeTone, nodes>>
       ELSE IF Lt(powerLevel, Num(5, 100))
       THEN /\ chargeTone' = IF chargeGainRef THEN [chargeTone EXCEPT !.vol = Zero]
                                              ELSE chargeTone
            /\ lastOp' = [op |-> "playPowerTone", created |-> FALSE, threw |-> FALSE]
            /\ UNCHANGED <<chargeSourceRef, chargeGainRef, nodes>>
       ELSE IF buffersRef.charge
       THEN LET create == NeedsChargeSource
                gain   == chargeGainRef \/ create
                tone0  == IF create THEN [rate |-> One, vol |-> Zero] ELSE chargeTone
                \* setTargetAtTime throws a TypeError on a value that is not
                \* finite; chargeGainRef.current!.gain throws when the ref is null
                rateOk == IsFin(playbackRate(powerLevel))
                volOk  == rateOk /\ gain /\ IsFin(vol(powerLevel))
            IN  /\ chargeSourceRef' = TRUE
                /\ chargeGainRef' = gain
                /\ nodes' = IF create THEN [nodes EXCEPT !.loops = @ + 1] ELSE nodes
                /\ chargeTone' =
                      [rate |-> IF rateOk THEN playbackRate(powerLevel) ELSE tone0.rate,
                       vol  |-> IF volOk THEN vol(powerLevel) ELSE tone0.vol]
                /\ lastOp' = [op |-> "playPowerTone", created |-> create,
                              threw |-> ~volOk]
       ELSE /\ lastOp' = [op |-> "playPowerTone", created |-> FALSE, threw |-> FALSE]
            /\ UNCHANGED <<chargeSourceRef, chargeGainRef, chargeTone, nodes>>
    /\ lastTone' = [op |-> "playPowerTone", level |-> powerLevel,
                    loaded |-> buffersRef.charge]
    /\ UNCHANGED <<audioMounted, audioContextRef, buffersRef, loading, timers, otherVars>>

stopPowerTone ==
    /\ audioMounted
    /\ IF audioContextRef # "null" /\ chargeSourceRef /\ chargeGainRef
       THEN /\ timers < MaxTimers
            /\ chargeTone' = [chargeTone EXCEPT !.vol = Zero]
            /\ timers' = timers + 1
       ELSE UNCHANGED <<chargeTone, timers>>
    /\ lastOp' = [op |-> "stopPowerTone", created |-> FALSE, threw |-> FALSE]
    /\ lastTone' = [op |-> "stopPowerTone", level |-> Zero, loaded |-> buffersRef.charge]
    /\ UNCHANGED <<audioMounted, audioContextRef, buffersRef, loading, chargeSourceRef,
                   chargeGainRef, nodes, otherVars>>

\* the callback of setTimeout(..., 250): stop and drop the source and the gain
TimerFires ==
    /\ timers > 0
    /\ timers' = timers - 1
    /\ nodes' = IF chargeSourceRef THEN [nodes EXCEPT !.loops = @ - 1] ELSE nodes
    /\ chargeSourceRef' = FALSE
    /\ chargeGainRef' = FALSE
    /\ chargeTone' = NoTone
    /\ UNCHANGED <<audioMounted, audioContextRef, buffersRef, loading, lastOp, lastTone,
                   otherVars>>

\* whether a one-shot sound creates its source: the context and the buffer exist
ShotCreatesUnchecked(name) == audioContextRef # "null"

ShotCreates(name) == audioContextRef # "null" /\ buffersRef[name]

playThrowSound ==
    /\ audioMounted
    /\ lastOp' = [op |-> "playThrowSound", created |-> ShotCreates("throw"),
                  threw |-> FALSE]
    /\ UNCHANGED <<audioMounted, audioContextRef, buffersRef, loading, chargeSourceRef,
                   chargeGainRef, chargeTone, timers, nodes, lastTone,
                   otherVars>>

playLandSound ==
    /\ audioMounted
    /\ lastOp' = [op |-> "playLandSound", created |-> ShotCreates("land"),
                  threw |-> FALSE]
    /\ UNCHANGED <<audioMounted, audioContextRef, buffersRef, loading, chargeSourceRef,
                   chargeGainRef, chargeTone, timers, nodes, lastTone,
                   otherVars>>

NextAudio ==
    \/ initAudio
    \/ Suspend
    \/ \E ok \in BOOLEAN : loadBuffer(ok)
    \/ AudioCleanup
    \/ \E powerLevel \in PowerLevels : playPowerTone(powerLevel)
    \/ stopPowerTone
    \/ TimerFires
    \/ playThrowSound
    \/ playLandSound

SpecAudio == Init /\ [][NextAudio]_vars

----------------------------------------------------------------------------
(* Properties *)

L == scan.locals

Between(lo, a, hi) == Leq(lo, a) /\ Leq(a, hi)

\* a face with a positive face height has been scored
ScoredFace == lastCall.called /\ L.faces > 0 /\ Lt(Zero, L.faceHeight)

\* a face with face height zero has been scored
ScoredDegenerate == lastCall.called /\ L.faces > 0 /\ L.faceHeight = Zero

\* a result without a face has been handled
ScoredNoFace == lastCall.called /\ L.faces = 0

(* C1: every score delivered through onScoreUpdate for a landmark set whose
   face height is greater than zero is a finite number in [0,1]. *)
C1_ScoreInUnitInterval ==
    ScoredFace => IsFin(lastCall.score) /\ Between(Zero, lastCall.score, One)

\* a mouth opened beyond the 0.30 maximum was scored, the clamp's case
C1_Witness ==
    /\ ScoredFace
    /\ Lt(Num(30, 100), L.mouthOpen)
    /\ Lt(Zero, lastCall.score)

(* C2: a face whose face height is zero is treated like no face: the score
   delivered is 0 and the displayed metrics are all 0. *)
C2_DegenerateIsNoFace ==
    ScoredDegenerate => lastCall.score = Zero /\ metrics = ZeroMetrics

(* C3: onScoreUpdate is called only while isActive is true. *)
C3_DeliversOnlyWhileActive ==
    lastCall.called => lastCall.isActive

(* C4: a frame is sent to the detector only when isActive is true at its
   arrival.  onFrame sends exactly when the ref it reads is true, so a send
   with the prop false is the ref showing true after the prop became false. *)
C4_SendsOnlyWhileActive ==
    lastSend.sent => lastSend.isActive

(* C5: a result without a face delivers onScoreUpdate(0) and zeroes the
   metrics; handling it changes nothing the capture depends on (camera,
   detector, ref, frame counter), and a face scored right after a no-face
   result gets a finite score in [0,1] that the metrics show. *)
C5_NoFaceIsZeroAndCaptureContinues ==
    /\ [](ScoredNoFace => lastCall.score = Zero /\ metrics = ZeroMetrics)
    /\ []((scan.before = 0 /\ ScoredFace) =>
            /\ IsFin(lastCall.score) /\ Between(Zero, lastCall.score, One)
            /\ metrics.total = Mul(lastCall.score, Hundred))
    /\ [][(pending' < pending /\ lastCall'.called /\ scan'.locals.faces = 0) =>
            UNCHANGED <<camera, faceMeshOpen, isActiveRef, frameCountRef>>]_vars

\* after a no-face result a later frame was scored with a positive score
C5_Witness ==
    scan.before = 0 /\ ScoredFace /\ Lt(Zero, lastCall.score)

(* C6: the phase is always one of idle, throwing, result, and it changes
   only from idle to throwing by a release with a valid power, from throwing
   to result by a loop pass that finds the projectile at rest, and from
   result to idle by a reset; every other trigger leaves it unchanged. *)
C6_PhaseMachine ==
    /\ [](gameState \in {"idle", "throwing", "result"})
    /\ [][gameState' # gameState =>
            \/ /\ gameState = "idle" /\ gameState' = "throwing"
               /\ Release /\ ValidPower(throwPower')
            \/ /\ gameState = "throwing" /\ gameState' = "result"
               /\ proj'.atRest /\ \E dt \in DtSet : Tick(dt)
            \/ /\ gameState = "result" /\ gameState' = "idle"
               /\ Reset]_vars

\* idle entered again by a reset, after a whole round
C6_Witness ==
    gameState = "idle" /\ isActive /\ effectPending

\* the mouth ratio and mouthScore of every face of positive height that the
\* detector may report
MouthPoints ==
    {[mouthOpen |-> Outcomes[r].locals.mouthOpen,
      mouthScore |-> Outcomes[r].locals.mouthScore] :
        r \in {q \in ResultsSet :
                  Outcomes[q].locals.faces > 0 /\ Lt(Zero, Outcomes[q].locals.faceHeight)}}

(* C7: for a face with positive height, mouthScore is 0 for a mouth ratio at
   or below 0.05, 1 at or above 0.30, the linear remap (ratio - 0.05) / 0.25
   in between, and never below the mouthScore of a face with a smaller
   ratio; eyeScore is 0 at or below 0.05 and 1 at or above 0.10. *)
C7_SubScoresClampedLinear ==
    ScoredFace =>
        /\ Leq(L.mouthOpen, Num(5, 100)) => L.mouthScore = Zero
        /\ Leq(Num(30, 100), L.mouthOpen) => L.mouthScore = One
        /\ Between(Num(5, 100), L.mouthOpen, Num(30, 100)) =>
              L.mouthScore = Mul(Sub(L.mouthOpen, Num(5, 100)), Num(4, 1))
        /\ \A o \in MouthPoints :
              Leq(o.mouthOpen, L.mouthOpen) => Leq(o.mouthScore, L.mouthScore)
        /\ Leq(L.eyeOpen, Num(5, 100)) => L.eyeScore = Zero
        /\ Leq(Num(10, 100), L.eyeOpen) => L.eyeScore = One

\* a mouth ratio strictly inside the window, scored strictly between 0 and 1
C7_Witness ==
    /\ ScoredFace
    /\ Lt(Num(5, 100), L.mouthOpen) /\ Lt(L.mouthOpen, Num(30, 100))
    /\ Lt(Zero, L.mouthScore) /\ Lt(L.mouthScore, One)

(* C8: for every face scored, the score delivered is 0.7 * mouthScore +
   0.3 * eyeScore, and the metrics are mouthScore, eyeScore and that score
   times 100, so that metrics.total = 0.7 * metrics.mouth + 0.3 * metrics.eye.
   Equality is sameness of value: NaN equals NaN here. *)
C8_WeightedTotal ==
    (lastCall.called /\ L.faces > 0) =>
        /\ lastCall.score = Add(Mul(Num(7, 10), L.mouthScore), Mul(Num(3, 10), L.eyeScore))
        /\ metrics.mouth = Mul(Hundred, L.mouthScore)
        /\ metrics.eye = Mul(Hundred, L.eyeScore)
        /\ metrics.total = Mul(Hundred, lastCall.score)
        /\ metrics.total = Add(Mul(Num(7, 10), metrics.mouth), Mul(Num(3, 10), metrics.eye))

\* a face whose two sub-scores differ and are both positive
C8_Witness ==
    /\ ScoredFace
    /\ Lt(Zero, L.mouthScore) /\ Lt(L.mouthScore, L.eyeScore)

GridSize == 20

ScoreGrid == {Num(i, GridSize) : i \in 0..GridSize}

PowerGrid == {Num(10 * GridSize + j, GridSize) : j \in 0..(25 * GridSize)}

\* on the grids: 0 maps to 10 and 1 to 35, a larger score maps to a larger
\* power, and every power of [10,35] is the image of its score (p - 10) / 25
ThrowPowerIsBijection ==
    /\ ThrowPower(Zero) = Num(10, 1)
    /\ ThrowPower(One) = Num(35, 1)
    /\ \A s1, s2 \in ScoreGrid : Lt(s1, s2) => Lt(ThrowPower(s1), ThrowPower(s2))
    /\ \A p \in PowerGrid :
          LET s == Div(Sub(p, Num(10, 1)), Num(25, 1))
          IN  Between(Zero, s, One) /\ ThrowPower(s) = p

(* C9: the mapping from score to ThrowPower is strictly increasing and maps
   [0,1] onto [10,35]; outside idle the locked ThrowPower is 10 + 25 * the
   captured score, lies in [10,35], and does not change before the reset. *)
C9_ThrowPowerMapping ==
    /\ [](ThrowPowerIsBijection)
    /\ [](gameState # "idle" =>
            /\ throwPower = Add(Num(10, 1), Mul(Num(25, 1), currentPower))
            /\ Between(Num(10, 1), throwPower, Num(35, 1)))
    /\ [][(gameState # "idle" /\ gameState' # "idle") => throwPower' = throwPower]_vars

\* a score strictly inside (0,1) was locked and the throw has come to rest
C9_Witness ==
    /\ gameState = "result"
    /\ Lt(Num(10, 1), throwPower) /\ Lt(throwPower, Num(35, 1))

(* C10: once atRest, the projectile stays atRest with its position unchanged
   by every step; only reset() leaves that state, for the launch state. *)
C10_RestIsTerminal ==
    [][proj.atRest =>
          \/ proj'.atRest /\ proj'.x = proj.x /\ proj'.y = proj.y
          \/ Reset /\ proj' = InitialProj]_vars

\* a throw that bounced has come to rest and the loop goes on in the result phase
C10_Witness ==
    proj.atRest /\ proj.bounces >= 2 /\ gameState = "result"

(* C11: every throw comes to rest under the running animation loop: the
   phase throwing always leads to the phase result, and no throw bounces
   more often than the non-convergence guard allows. *)
C11_ThrowComesToRest ==
    /\ [](proj.bounces <= MaxBounces + 1)
    /\ (gameState = "throwing") ~> (gameState = "result")

\* the strongest throw has come to rest after several bounces
C11_Witness ==
    gameState = "result" /\ proj.atRest /\ throwPower = Num(35, 1) /\ proj.bounces >= 3

\* a power start() must reject: not finite, below 10 or above 35
BadPower(p) == ~IsFin(p) \/ Lt(p, Num(10, 1)) \/ Lt(Num(35, 1), p)

(* C12: a release in idle whose power is negative, out of range or not
   finite is rejected: start() reports the validation failure, the phase
   stays idle and the projectile state is unchanged; and no throw is ever
   under way with such a power. *)
C12_InvalidPowerRejected ==
    /\ [][(Release /\ gameState = "idle" /\ BadPower(ThrowPower(currentPower))) =>
            (lastStart' = "invalid" /\ gameState' = "idle" /\ proj' = proj)]_vars
    /\ [](gameState # "idle" => ~BadPower(throwPower))

\* a negative power was rejected and the game is still idle at the launch state
C12_Witness ==
    /\ lastStart = "invalid" /\ gameState = "idle" /\ proj = InitialProj
    /\ Lt(ThrowPower(currentPower), Zero)

(* C13: frame skipping: every camera frame advances the frame counter by
   one, also while tracking is inactive; a frame is handed to the detector
   only when the advanced counter is even, and while isActiveRef is set
   every frame with an even count is handed over. So of two consecutive
   frames one is eligible and the other is dropped. *)
C13_EveryOtherFrame ==
    [][/\ OnFrame => frameCountRef' = frameCountRef + 1
       /\ frameCountRef' # frameCountRef => frameCountRef' = frameCountRef + 1
       /\ pending' > pending => (frameCountRef' = frameCountRef + 1 /\ frameCountRef' % 2 = 0)
       /\ (OnFrame /\ isActiveRef /\ frameCountRef % 2 = 1) => pending' = pending + 1
       /\ (OnFrame /\ frameCountRef % 2 = 0) => pending' = pending]_vars

\* frames were counted although none was ever sent: tracking was inactive
\* when the even frames came
C13_Witness ==
    frameCountRef >= 4 /\ ~lastSend.sent /\ ~isActiveRef

(* C14: when no video element exists at mount and no Camera is started,
   no frame is ever counted or sent, onScoreUpdate is never called and the
   power stays 0; the game is still usable: in idle a release starts a
   throw, and the cleanup skips camera.stop(), so that step cannot throw. *)
C14_NoCameraDegradesGracefully ==
    /\ [](camera = "none" =>
            /\ frameCountRef = 0 /\ pending = 0 /\ ~lastSend.sent
            /\ ~lastCall.called /\ currentPower = Zero /\ metrics = ZeroMetrics)
    /\ []((camera = "none" /\ gameState = "idle" /\ teardown = "none") =>
            ENABLED (Release /\ gameState' = "throwing"))
    /\ [][(camera = "none" /\ Cleanup(TRUE, FALSE)) => teardown' = "done"]_vars

\* without a camera a whole round was played and the game is idle again
C14_Witness ==
    camera = "none" /\ gameState = "idle" /\ lastStart = "ok" /\ teardown = "none"

(* C15: once the cleanup has run to its end the camera, if there was one,
   is stopped and the detector is closed, and from then on no frame is sent
   and onScoreUpdate is not called. *)
C15_TeardownReleases ==
    /\ [](teardown = "done" => camera # "started" /\ ~faceMeshOpen)
    /\ [][teardown = "done" =>
            UNCHANGED <<lastSend, lastCall, currentPower, metrics>>]_vars

(* C16: the cleanup never throws, and whatever fails in it the other steps
   still run: after it the camera is not running and the detector is closed. *)
C16_TeardownBestEffort ==
    /\ teardown # "threw"
    /\ teardown # "none" => (camera # "started" /\ ~faceMeshOpen)

(* C18: the score is scale-invariant: whenever onResults scores a face,
   the same face with every coordinate multiplied by a positive factor has
   a face height multiplied by that factor and the same mouthScore,
   eyeScore and delivered score. *)
C18_ScaleInvariant ==
    [][\A r \in ResultsSet : (Len(r) > 0 /\ OnResults(r)) =>
          \A k \in ScaleFactors :
              LET o == ScaledOutcomes[r[1]][k]
              IN  /\ o.locals.faceHeight = Mul(Num(k, 1), scan'.locals.faceHeight)
                  /\ o.locals.mouthScore = scan'.locals.mouthScore
                  /\ o.locals.eyeScore = scan'.locals.eyeScore
                  /\ o.score = lastCall'.score]_vars

\* a face with both sub-scores strictly inside (0,1) was scored, and its
\* scaled copies are really larger
C18_Witness ==
    /\ ScoredFace
    /\ Lt(Zero, scan.locals.mouthScore) /\ Lt(scan.locals.mouthScore, One)
    /\ Lt(Zero, scan.locals.eyeScore) /\ Lt(scan.locals.eyeScore, One)
    /\ \E f \in Faces : \A k \in ScaleFactors :
          /\ ScaledOutcomes[f][k].score = lastCall.score
          /\ ScaledOutcomes[f][k].locals.faceHeight =
                Mul(Num(k, 1), scan.locals.faceHeight)

(* C17: the timeout that stopPowerTone schedules is tied to the lifetime of
   the sound hook: once the hook is cleaned up no such timeout is pending,
   and the timeout's callback never runs against a closed audio context. *)
C17_TimerTiedToLifetime ==
    /\ [](~audioMounted => timers = 0)
    /\ [][timers' < timers => audioContextRef # "closed"]_vars

\* the state the audio operations may change, apart from the log of the call
audioState == <<audioMounted, audioContextRef, buffersRef, loading, chargeSourceRef,
                chargeGainRef, chargeTone, timers, nodes>>

(* C19: an audio operation called while no audio context exists, or while
   the buffer it plays is not loaded, returns normally without creating a
   source node and without changing any audio state. *)
C19_FireAndForget ==
    [][/\ ( /\ (\E l \in PowerLevels : playPowerTone(l)) \/ stopPowerTone
            /\ (audioContextRef = "null" \/ ~buffersRef.charge) ) =>
              (UNCHANGED audioState /\ ~lastOp'.created /\ ~lastOp'.threw)
       /\ (playThrowSound /\ (audioContextRef = "null" \/ ~buffersRef.throw)) =>
              (UNCHANGED audioState /\ ~lastOp'.created /\ ~lastOp'.threw)
       /\ (playLandSound /\ (audioContextRef = "null" \/ ~buffersRef.land)) =>
              (UNCHANGED audioState /\ ~lastOp'.created /\ ~lastOp'.threw)]_vars

\* the context exists and the charge sound is loaded, the throw sound failed
\* to load, and playThrowSound returned without a source
C19_Witness ==
    /\ lastOp = [op |-> "playThrowSound", created |-> FALSE, threw |-> FALSE]
    /\ audioContextRef = "running" /\ loading = 4
    /\ buffersRef.charge /\ ~buffersRef.throw

(* C20: at most one audio context is ever created, at most one looping
   charge source is playing, and the charge source ref and the gain ref
   are both set or both null. *)
C20_SingleContextAndSource ==
    /\ nodes.contexts <= 1
    /\ nodes.loops <= 1
    /\ chargeSourceRef <=> chargeGainRef

\* a new charge source was created while a timeout of an earlier
\* stopPowerTone is still pending
C20_Witness ==
    /\ timers > 0 /\ chargeSourceRef /\ nodes.loops = 1
    /\ lastOp.op = "playPowerTone" /\ lastOp.created

(* C21: whenever the most recent power-tone call is a playPowerTone with a
   level of at least 0.05 made with the charge buffer loaded, a looping
   charge source exists: no timeout of an earlier stopPowerTone takes away
   the source that the later playPowerTone modulates. *)
C21_TimerSparesModulatedSource ==
    ( /\ audioMounted
      /\ lastTone.op = "playPowerTone"
      /\ Leq(Num(5, 100), lastTone.level)
      /\ lastTone.loaded ) =>
        (chargeSourceRef /\ chargeGainRef /\ nodes.loops = 1)

\* no effect of the last render is still to run
EffectsSettled == ~effectPending /\ ~snapshotPending

\* while active and settled the snapshot is null, and a snapshot held
\* through an inactive period is never replaced by another one
SnapshotNullWhileActiveAndKept ==
    /\ []((EffectsSettled /\ isActive) => snapshot = "null")
    /\ [][(~isActive /\ ~isActive' /\ snapshot # "null") => snapshot' = snapshot]_vars

(* C22, as stated: once effects have settled the snapshot is null whenever
   isActive is true; when isActive becomes false a snapshot is captured, it
   is not replaced during that inactive period, and it is cleared on the
   next activation. *)
C22_SnapshotFollowsActive ==
    /\ SnapshotNullWhileActiveAndKept
    /\ []((EffectsSettled /\ ~isActive) => snapshot # "null")

(* C22, amended: as stated, except that a snapshot is captured when
   isActive becomes false only if getScreenshot() yields an image; a
   snapshot is always an image the webcam gave, and without any image the
   snapshot stays null. *)
C22_SnapshotFollowsActiveWhenAvailable ==
    /\ SnapshotNullWhileActiveAndKept
    /\ []((EffectsSettled /\ ~isActive /\ "null" \notin screenshots) => snapshot # "null")
    /\ [](snapshot # "null" => snapshot \in screenshots)

\* a snapshot captured at the release is still held in the result phase
C22_Witness ==
    /\ EffectsSettled /\ ~isActive /\ gameState = "result"
    /\ snapshot = "imgB" /\ "null" \notin screenshots

====
